---- MODULE Spec2Model ----
(***************************************************************************)
(* cargo-ori: the `apk build` and `apk install` workflows of src/apk.rs    *)
(* (Command::run, get_devices, install_apk, build_apk, build_lib,          *)
(* artifact_cdylib, apk_manifest, download_android_sdk) and the `apk       *)
(* build` of src/main.rs (build_apk, build_android) as state machines.     *)
(* One run of a tool is a walk of `pc` to "done"; the file system of the   *)
(* build directory outlives a run, so runs follow one another.             *)
(*                                                                         *)
(* Spec          one run of `apk build` or `apk install` (apk.rs)          *)
(* SpecBuilds    `apk build` (apk.rs) run repeatedly on one directory      *)
(* SpecTools     one run of `apk build`, of apk.rs or of main.rs           *)
(* SpecManifest  manifest synthesis on its own (apk.rs and main.rs)        *)
(* SpecDevices   get_devices on its own                                    *)
(* SpecLib       build_lib on its own                                      *)
(***************************************************************************)
EXTENDS Integers, Sequences, FiniteSets, TLC

\* ------------------------------------------------------------------ bounds
\* rows after the header in the output of `adb devices`
MaxDevices == 2
\* messages the compiler emits before it closes its output
MaxStream == 2
\* download-and-extract calls over all runs
MaxDownloads == 2

\* ------------------------------------------------------------- Option<T>
None == <<>>
Some(v) == <<v>>

\* ------------------------------------------------------- architectures
\* apk::Target, the type of Device::arch
Targets == {"Arm64V8a", "ArmV7a", "X86", "X86_64"}

\* Device::target_triple: the compiler triple of a device's architecture
target_triple(arch) ==
    CASE arch = "Arm64V8a" -> "aarch64-linux-android"
      [] arch = "ArmV7a"   -> "arm7-linux-androideabi"
      [] arch = "X86"      -> "i686-linux-android"
      [] arch = "X86_64"   -> "x86_64-linux-android"

\* apk_target_of with a default arm in place of the bail
apk_target_of_default(target) ==
    CASE target = "aarch64-linux-android" -> Some("Arm64V8a")
      [] target = "arm7-linux-androidabi" -> Some("ArmV7a")
      [] target = "x86_64-linux-android"  -> Some("X86_64")
      [] target = "i686-linux-android"    -> Some("X86")
      [] OTHER                            -> Some("Arm64V8a")

\* the `match target` of build_apk: None is the `_ => bail!` arm
apk_target_of(target) ==
    CASE target = "aarch64-linux-android" -> Some("Arm64V8a")
      [] target = "arm7-linux-androidabi" -> Some("ArmV7a")
      [] target = "x86_64-linux-android"  -> Some("X86_64")
      [] target = "i686-linux-android"    -> Some("X86")
      [] OTHER                            -> None

\* the `match arch.trim()` of get_devices on the trimmed property text
abi_target_of(abi) ==
    CASE abi = "arm64-v8a"  -> Some("Arm64V8a")
      [] abi = "armabi-v7a" -> Some("ArmV7a")
      [] abi = "x86_64"     -> Some("X86_64")
      [] abi = "x86"        -> Some("X86")
      [] OTHER              -> None

\* ------------------------------------------------------------------ text
\* A text is a sequence of tokens: words, and WS for a run of white space.
WS == " "

RECURSIVE trim_start(_)
trim_start(text) ==
    IF text # <<>> /\ Head(text) = WS THEN trim_start(Tail(text)) ELSE text

RECURSIVE trim_end(_)
trim_end(text) ==
    IF text # <<>> /\ text[Len(text)] = WS
    THEN trim_end(SubSeq(text, 1, Len(text) - 1))
    ELSE text

\* str::trim
trim(text) == trim_end(trim_start(text))

\* str::split_whitespace: the words of a text, in order
RECURSIVE split_whitespace(_)
split_whitespace(text) ==
    IF text = <<>> THEN <<>>
    ELSE IF Head(text) = WS THEN split_whitespace(Tail(text))
    ELSE <<Head(text)>> \o split_whitespace(Tail(text))

\* a line or a property value that is not valid UTF-8
InvalidUtf8 == <<"<invalid utf-8>">>

\* ------------------------------------------------------------ error texts
ErrMetadata       == "Failed to get cargo metadata"
ErrNoPackage      == "No package"
ErrSchema         == "unknown field"
ErrSpawn          == "No such file or directory (os error 2)"
ErrUtf8           == "stream did not contain valid UTF-8"
ErrMalformed      == "Malformed adb output"
ErrUnknownAbi     == "Unknown abi"
ErrNoDevice       == "No device selected, use --device"
ErrCross          == "cross is not installed"
ErrNoTarget       == "Target not specified, use --target to do so"
ErrUnsupported    == "Target is not supported for android"
ErrRunCross       == "Failed to run cross"
ErrStream         == "compiler output could not be read"
ErrNoArtifact     == "Artifact not generated"
ErrNoCdylib       == "No cdylib built"
ErrStripPrefix    == "prefix not found"
ErrWriteDex       == "Failed to write classes.dex"
ErrApk            == "apk error"
ErrPem            == "Failed to load PEM file"
ErrSigner         == "signer error"
ErrAdb            == "adb is not installed"
ErrInstall        == "Install failed"
Panic             == "panic"

\* ---------------------------------------------------------- adb devices
DeviceIds == {"deadbeef001", "emulator-5554"}

Header == <<"List", WS, "of", WS, "devices", WS, "attached">>

DeviceRow(id) == <<id, WS, "device">>

\* the rows `adb devices` may print under its first line
Rows == {DeviceRow(id) : id \in DeviceIds} \cup {<<WS>>, InvalidUtf8}

RowSeqs == UNION {[1..n -> Rows] : n \in 0..MaxDevices}

\* what `adb devices` may write to its standard output
AdbOutputs ==
    {<<>>} \cup {<<first>> \o rows :
                   first \in {Header, DeviceRow("deadbeef001")}, rows \in RowSeqs}

\* what `getprop ro.product.cpu.abi` may write to its standard output
AbiReplies ==
    {<<abi, WS>> : abi \in {"arm64-v8a", "armabi-v7a", "x86_64", "x86", "armeabi-v7a"}}
        \cup {InvalidUtf8}

\* the `for line in lines` loop of get_devices
RECURSIVE get_devices_loop(_, _, _, _)
get_devices_loop(lines, getprop, devices, queried) ==
    IF lines = <<>>
    THEN [err |-> None, devices |-> devices, queried |-> queried]
    ELSE LET line == Head(lines) IN
         IF line = InvalidUtf8
         THEN [err |-> Some(ErrUtf8), devices |-> <<>>, queried |-> queried]
         ELSE IF trim(line) = <<>>
         THEN get_devices_loop(Tail(lines), getprop, devices, queried)
         ELSE LET words == split_whitespace(line) IN
              IF words = <<>>
              THEN [err |-> Some(ErrMalformed), devices |-> <<>>, queried |-> queried]
              ELSE LET id    == Head(words)
                       reply == getprop[id]
                       asked == Append(queried, [id |-> id, reply |-> reply])
                   IN
                   IF reply = InvalidUtf8
                   THEN [err |-> Some(ErrUtf8), devices |-> <<>>, queried |-> asked]
                   ELSE LET abi  == trim(reply)
                            arch == IF Len(abi) = 1 THEN abi_target_of(abi[1]) ELSE None
                        IN
                        IF arch = None
                        THEN [err |-> Some(ErrUnknownAbi), devices |-> <<>>,
                              queried |-> asked]
                        ELSE get_devices_loop(Tail(lines), getprop,
                                 Append(devices, [id |-> id, arch |-> arch[1]]), asked)

\* get_devices dropping two lines before its loop
get_devices_two_headers(output, getprop) ==
    get_devices_loop(IF Len(output) <= 2 THEN <<>> ELSE Tail(Tail(output)), getprop,
                     <<>>, <<>>)

\* get_devices on the output of `adb devices` and the devices' properties:
\* `lines.next()` drops the first line, whatever it is
get_devices(output, getprop) ==
    get_devices_loop(IF output = <<>> THEN <<>> ELSE Tail(output), getprop, <<>>, <<>>)

\* ------------------------------------------------------------------ paths
\* A path is the sequence of its components; "/" is the root component.
WorkspaceRoot == <<"/", "ws">>

TargetDirectory == <<"/", "ws", "target">>

PackageName == "my-app"

PackageId == "my-app 1.2.3"

\* the android platform version build_apk asks download_android_sdk for
SdkVersion == 34

\* Path::join
join(path, rel) == IF rel # <<>> /\ Head(rel) = "/" THEN rel ELSE path \o rel

\* Path::parent
parent(path) == SubSeq(path, 1, Len(path) - 1)

\* the path download_android_sdk computes: <target>/apk/platforms/android-34/android.jar
sdk_jar_path(target_directory, version) ==
    join(target_directory,
         <<"apk", "platforms", "android-" \o ToString(version), "android.jar">>)

\* ------------------------------------------------------ compiler messages
\* cargo_metadata::Artifact values the compiler may report
LibSo == <<"/", "target", "debug", "libmy_app.so">>

LibRlib == <<"/", "target", "debug", "libmy_app.rlib">>

LibSo2 == <<"/", "target", "debug", "deps", "libmy_app.so">>

Artifact(package_id, crate_types, filenames) ==
    [package_id |-> package_id, crate_types |-> crate_types, filenames |-> filenames]

OwnArtifacts ==
    { Artifact(PackageId, <<"rlib", "cdylib">>, <<LibRlib, LibSo>>),
      Artifact(PackageId, <<"rlib">>, <<LibRlib>>),
      Artifact(PackageId, <<"cdylib", "cdylib">>, <<LibSo, LibSo2>>) }

OtherArtifacts ==
    { Artifact("dep 0.1.0", <<"cdylib">>, <<LibSo2>>) }

NoArtifact == Artifact("", <<>>, <<>>)

Message(kind, artifact) == [kind |-> kind, artifact |-> artifact]

\* cargo_metadata::Message values of the stream of `cross build --message-format=json`
Messages ==
    {Message("compiler-artifact", a) : a \in OwnArtifacts \cup OtherArtifacts}
        \cup {Message(k, NoArtifact) :
                k \in {"compiler-message", "text-line", "build-finished"}}

\* build_lib_step keeping the first matching artifact instead of the last
build_lib_step_first(candidate, message) ==
    IF /\ message.kind = "compiler-artifact"
       /\ message.artifact.package_id = PackageId
       /\ candidate = None
    THEN Some(message.artifact)
    ELSE candidate

\* the body of the `for message in ...` loop of build_lib: the package_artifact
\* after `message` has been handled
build_lib_step(candidate, message) ==
    IF message.kind = "compiler-artifact" /\ message.artifact.package_id = PackageId
    THEN Some(message.artifact)
    ELSE candidate

\* build_android of main.rs: the package_artifact its loop leaves for a stream
RECURSIVE build_android(_)
build_android(messages) ==
    IF messages = <<>> THEN None
    ELSE LET message == messages[Len(messages)]
             before  == build_android(SubSeq(messages, 1, Len(messages) - 1))
         IN IF message.kind = "compiler-artifact"
            THEN IF message.artifact.package_id = PackageId
                 THEN Some(message.artifact)
                 ELSE before
            ELSE before

\* position finding the last index instead of the first
RECURSIVE position_last(_, _)
position_last(crate_types, kind) ==
    IF crate_types = <<>> THEN 0
    ELSE IF crate_types[Len(crate_types)] = kind THEN Len(crate_types)
    ELSE position_last(SubSeq(crate_types, 1, Len(crate_types) - 1), kind)

\* Iterator::position: first index of `kind` in the crate types, 0 for None
RECURSIVE position(_, _)
position(crate_types, kind) ==
    IF crate_types = <<>> THEN 0
    ELSE IF Head(crate_types) = kind THEN 1
    ELSE LET rest == position(Tail(crate_types), kind)
         IN IF rest = 0 THEN 0 ELSE rest + 1

\* artifact_cdylib falling back to the first file when no `cdylib` was built
artifact_cdylib_first(a) ==
    LET index == position(a.crate_types, "cdylib") IN
    IF index = 0 THEN [err |-> None, path |-> a.filenames[1]]
    ELSE IF index > Len(a.filenames) THEN [err |-> Some(Panic), path |-> <<>>]
    ELSE [err |-> None, path |-> a.filenames[index]]

\* artifact_cdylib: the file of the first `cdylib` crate type
artifact_cdylib(a) ==
    LET index == position(a.crate_types, "cdylib") IN
    IF index = 0 THEN [err |-> Some(ErrNoCdylib), path |-> <<>>]
    ELSE IF index > Len(a.filenames) THEN [err |-> Some(Panic), path |-> <<>>]
    ELSE [err |-> None, path |-> a.filenames[index]]

\* -------------------------------------------------------------- the state
VARIABLES
    command,           \* the subcommand: "Build" or "Install"
    cli,               \* BuildOptions as parsed from the command line
    options,           \* BuildOptions as Command::run holds (and changes) them
    adb_installed,     \* whether an `adb` executable can be spawned
    fs,                \* the SDK cache: [dir, jar] existence under <target>/apk
    pc,                \* the call the run makes next
    result,            \* "running", "Ok" or the error the run ended with
    devices,           \* the Vec<Device> get_devices returned, None before it has
    device,            \* the selected device
    queried,           \* the getprop queries get_devices made, with their replies
    apk_target,        \* apk_target of build_apk
    stream,            \* the messages build_lib has read from the compiler
    package_artifact,  \* package_artifact of build_lib
    artifact,          \* artifact of build_apk
    apk_path,          \* apk_path of build_apk
    pem,               \* pem of build_apk: the text the signer is built from
    downloads,         \* download-and-extract calls made so far, over all runs
    calls,             \* the calls of this run, in order
    echoed,            \* what the reader of the compiler's messages has printed
    arguments,         \* the arguments of a function examined on its own
    returned           \* what that function returned, None before it has

vars == <<command, cli, options, adb_installed, fs, pc, result, devices, device,
          queried, apk_target, stream, package_artifact, artifact, apk_path,
          pem, downloads, calls, echoed, arguments, returned>>

Call(op, args) == [op |-> op, args |-> args]

Called(op) == \E i \in 1..Len(calls) : calls[i].op = op

\* BuildOptions (the fields the workflows read)
CliTargets ==
    {None} \cup {Some(t) : t \in {"aarch64-linux-android", "arm7-linux-androidabi",
                                  "x86_64-linux-android", "i686-linux-android",
                                  "wasm32-unknown-unknown"}}

BuildOptions ==
    [target : CliTargets, offline : BOOLEAN, pem : {None, Some(<<"key.pem">>)}]

FsStates == {[dir |-> FALSE, jar |-> FALSE], [dir |-> TRUE, jar |-> FALSE],
             [dir |-> TRUE, jar |-> TRUE]}

Init ==
    /\ command \in {"Build", "Install"}
    /\ cli \in BuildOptions
    /\ options = cli
    /\ adb_installed \in BOOLEAN
    /\ fs \in FsStates
    /\ pc = "get_cargo_metadata"
    /\ result = "running"
    /\ devices = None
    /\ device = None
    /\ queried = <<>>
    /\ apk_target = None
    /\ stream = <<>>
    /\ package_artifact = None
    /\ artifact = None
    /\ apk_path = None
    /\ pem = None
    /\ downloads = 0
    /\ calls = <<>>
    /\ echoed = <<>>
    /\ arguments = None
    /\ returned = None

\* ----------------------------------------------------------- Command::run
Fail(e) == pc' = "done" /\ result' = e

Goto(p) == pc' = p /\ result' = result

Log(c) == calls' = Append(calls, c)

\* a Command::run that builds right after get_package
after_get_package_build_first ==
    IF command = "Install" THEN "get_devices" ELSE "ensure_cross_installed"

\* the call that follows get_package in Command::run
after_get_package == IF command = "Install" THEN "get_devices" ELSE "ori_metadata"

\* crate::get_cargo_metadata()?
GetCargoMetadata ==
    /\ pc = "get_cargo_metadata"
    /\ Log(Call("cargo metadata", <<>>))
    /\ \E ok \in BOOLEAN : IF ok THEN Goto("get_package") ELSE Fail(ErrMetadata)
    /\ UNCHANGED <<arguments, returned, echoed,
                   command, cli, options, adb_installed, fs, devices, device, queried,
                   apk_target, stream, package_artifact, artifact, apk_path, pem, downloads>>

\* get_package(&metadata, options.package.as_deref())?
GetPackage ==
    /\ pc = "get_package"
    /\ \E found \in BOOLEAN : IF found THEN Goto(after_get_package) ELSE Fail(ErrNoPackage)
    /\ UNCHANGED <<arguments, returned, echoed,
                   command, cli, options, adb_installed, fs, devices, device, queried,
                   apk_target, stream, package_artifact, artifact, apk_path, pem, downloads,
                   calls>>

\* let devices = get_devices()?
GetDevices ==
    /\ pc = "get_devices"
    /\ IF ~adb_installed
       THEN /\ Log(Call("adb devices", <<>>))
            /\ Fail(ErrSpawn)
            /\ UNCHANGED <<devices, queried>>
       ELSE \E output \in AdbOutputs, getprop \in [DeviceIds -> AbiReplies] :
              LET r == get_devices(output, getprop) IN
              /\ calls' = calls \o <<Call("adb devices", <<>>)>>
                            \o [i \in 1..Len(r.queried) |->
                                  Call("adb getprop", <<r.queried[i].id>>)]
              /\ queried' = r.queried
              /\ IF r.err = None
                 THEN devices' = Some(r.devices) /\ Goto("select_device")
                 ELSE devices' = devices /\ Fail(r.err[1])
    /\ UNCHANGED <<arguments, returned, echoed,
                   command, cli, options, adb_installed, fs, device, apk_target, stream,
                   package_artifact, artifact, apk_path, pem, downloads>>

\* infer_target without the `is_none` test: the device always decides
infer_target_always(target, dev) == Some(target_triple(dev.arch))

\* the target Command::run leaves in options once `device` is selected
infer_target(target, dev) ==
    IF target = None THEN Some(target_triple(dev.arch)) ELSE target

\* select_device defaulting to the first device of a longer list
select_device_first(devs) == IF Len(devs) >= 1 THEN Some(devs[1]) ELSE None

\* the device Command::run selects from the list, None when it bails
select_device(devs) == IF Len(devs) = 1 THEN Some(devs[1]) ELSE None

\* let device = if devices.len() == 1 {..} else {bail!}; if options.target.is_none() {..}
SelectDevice ==
    /\ pc = "select_device"
    /\ LET selected == select_device(devices[1]) IN
       IF selected # None
       THEN /\ device' = selected
            /\ options' = [options EXCEPT !.target = infer_target(options.target, selected[1])]
            /\ Goto("ori_metadata")
       ELSE /\ Fail(ErrNoDevice)
            /\ UNCHANGED <<device, options>>
    /\ UNCHANGED <<arguments, returned, echoed,
                   command, cli, adb_installed, fs, devices, queried, apk_target, stream,
                   package_artifact, artifact, apk_path, pem, downloads, calls>>

\* OriMetadata::from_package(package)?
OriMetadataFromPackage ==
    /\ pc = "ori_metadata"
    /\ Log(Call("OriMetadata::from_package", <<>>))
    /\ \E valid \in BOOLEAN : IF valid THEN Goto("apk_metadata") ELSE Fail(ErrSchema)
    /\ UNCHANGED <<arguments, returned, echoed,
                   command, cli, options, adb_installed, fs, devices, device, queried,
                   apk_target, stream, package_artifact, artifact, apk_path, pem, downloads>>

\* Metadata::from_package(package)?
MetadataFromPackage ==
    /\ pc = "apk_metadata"
    /\ Log(Call("Metadata::from_package", <<>>))
    /\ \E valid \in BOOLEAN : IF valid THEN Goto("apk_manifest") ELSE Fail(ErrSchema)
    /\ UNCHANGED <<arguments, returned, echoed,
                   command, cli, options, adb_installed, fs, devices, device, queried,
                   apk_target, stream, package_artifact, artifact, apk_path, pem, downloads>>

\* the call that follows apk_manifest in Command::run
after_apk_manifest ==
    IF command = "Install" THEN "ensure_adb_installed" ELSE "ensure_cross_installed"

\* apk_manifest(package, &ori_metadata, &apk_metadata)? and the call of build_apk
\* or install_apk
ApkManifest ==
    /\ pc = "apk_manifest"
    /\ Log(Call("apk_manifest", <<>>))
    /\ Goto(after_apk_manifest)
    /\ UNCHANGED <<arguments, returned, echoed,
                   command, cli, options, adb_installed, fs, devices, device, queried,
                   apk_target, stream, package_artifact, artifact, apk_path, pem, downloads>>

\* install_apk: ensure_adb_installed()?
EnsureAdbInstalled ==
    /\ pc = "ensure_adb_installed"
    /\ Log(Call("adb version", <<>>))
    /\ IF adb_installed
       THEN \E success \in BOOLEAN :
              IF success THEN Goto("ensure_cross_installed") ELSE Fail(ErrAdb)
       ELSE Fail(ErrAdb)
    /\ UNCHANGED <<arguments, returned, echoed,
                   command, cli, options, adb_installed, fs, devices, device, queried,
                   apk_target, stream, package_artifact, artifact, apk_path, pem, downloads>>

\* -------------------------------------------------------------- build_apk
\* crate::ensure_cross_installed()?
EnsureCrossInstalled ==
    /\ pc = "ensure_cross_installed"
    /\ Log(Call("cross --version", <<>>))
    /\ \E installed \in BOOLEAN :
         IF installed THEN Goto("resolve_target") ELSE Fail(ErrCross)
    /\ UNCHANGED <<arguments, returned, echoed,
                   command, cli, options, adb_installed, fs, devices, device, queried,
                   apk_target, stream, package_artifact, artifact, apk_path, pem,
                   downloads>>

\* let target = options.target...ok_or_else(..)?; let apk_target = match target {..}
ResolveTarget ==
    /\ pc = "resolve_target"
    /\ IF options.target = None
       THEN Fail(ErrNoTarget) /\ apk_target' = apk_target
       ELSE LET arch == apk_target_of(options.target[1]) IN
            IF arch = None
            THEN Fail(ErrUnsupported) /\ apk_target' = apk_target
            ELSE Goto("build_lib") /\ apk_target' = arch
    /\ UNCHANGED <<arguments, returned, echoed,
                   command, cli, options, adb_installed, fs, devices, device, queried,
                   stream, package_artifact, artifact, apk_path, pem, downloads, calls>>

\* build_lib: the `cross build` command is put together and spawned
BuildLibSpawn ==
    /\ pc = "build_lib"
    /\ Log(Call("cross build", <<options.target[1], options.offline>>))
    /\ \E spawned \in BOOLEAN :
         IF spawned THEN Goto("build_lib_loop") ELSE Fail(ErrRunCross)
    /\ UNCHANGED <<arguments, returned, echoed,
                   command, cli, options, adb_installed, fs, devices, device, queried,
                   apk_target, stream, package_artifact, artifact, apk_path, pem,
                   downloads>>

\* the kinds of message build_lib prints: Message::CompilerMessage and
\* Message::TextLine
EchoedKinds == {"compiler-message", "text-line"}

\* an echo that prints every message it reads
build_lib_echo_all(out, message, at) == Append(out, [at |-> at, message |-> message])

\* an echo that keeps only the latest printed message
build_lib_echo_latest(out, message, at) ==
    IF message.kind \in EchoedKinds THEN <<[at |-> at, message |-> message]>> ELSE out

\* the println! arms of build_lib's loop: what has been printed once the message
\* read as number `at` of the stream is handled
build_lib_echo(out, message, at) ==
    IF message.kind \in EchoedKinds THEN Append(out, [at |-> at, message |-> message])
    ELSE out

\* build_lib: one message is read from the compiler and handled
BuildLibMessage ==
    /\ pc = "build_lib_loop"
    /\ Len(stream) < MaxStream
    /\ \E message \in Messages :
         /\ stream' = Append(stream, message)
         /\ package_artifact' = build_lib_step(package_artifact, message)
         /\ echoed' = build_lib_echo(echoed, message, Len(stream) + 1)
    /\ Goto("build_lib_loop")
    /\ UNCHANGED <<arguments, returned,
                   command, cli, options, adb_installed, fs, devices, device, queried,
                   apk_target, artifact, apk_path, pem, downloads, calls>>

\* build_lib: `message?` on a stream that cannot be read
BuildLibReadError ==
    /\ pc = "build_lib_loop"
    /\ Fail(ErrStream)
    /\ UNCHANGED <<arguments, returned, echoed,
                   command, cli, options, adb_installed, fs, devices, device, queried,
                   apk_target, stream, package_artifact, artifact, apk_path, pem,
                   downloads, calls>>

\* what build_lib returns once the stream has ended
build_lib_result(candidate) ==
    IF candidate = None THEN [err |-> Some(ErrNoArtifact), artifact |-> None]
    ELSE [err |-> None, artifact |-> candidate]

\* build_lib: the stream ends; package_artifact.ok_or_else(..) is returned
BuildLibEnd ==
    /\ pc = "build_lib_loop"
    /\ LET r == build_lib_result(package_artifact) IN
       IF r.err = None
       THEN Goto("download_android_sdk") /\ artifact' = r.artifact
       ELSE Fail(r.err[1]) /\ artifact' = artifact
    /\ UNCHANGED <<arguments, returned, echoed,
                   command, cli, options, adb_installed, fs, devices, device, queried,
                   apk_target, stream, package_artifact, apk_path, pem, downloads,
                   calls>>

\* sdk_cached testing the directory instead of the file
sdk_cached_dir(files) == files.dir

\* apk_path.exists() of download_android_sdk
sdk_cached(files) == files.jar

\* whether download_android_sdk calls download_and_extract_packages
sdk_download(files) == ~sdk_cached(files)

\* what download_and_extract_packages may leave behind
DownloadOutcomes == {[dir |-> FALSE, jar |-> FALSE], [dir |-> TRUE, jar |-> FALSE],
                     [dir |-> TRUE, jar |-> TRUE]}

\* download_android_sdk(&metadata.target_directory, 34)?; build_lib has returned,
\* its reader and what it printed are no longer followed
DownloadAndroidSdk ==
    /\ pc = "download_android_sdk"
    /\ IF sdk_download(fs)
       THEN /\ \E left \in DownloadOutcomes :
                 fs' = [dir |-> fs.dir \/ left.dir, jar |-> fs.jar \/ left.jar]
            /\ downloads' = downloads + 1
            /\ calls' = calls \o <<Call("exists", <<fs.jar>>),
                                   Call("download_and_extract_packages",
                                        <<"platforms;android-" \o ToString(SdkVersion)>>)>>
       ELSE /\ UNCHANGED <<fs, downloads>>
            /\ Log(Call("exists", <<fs.jar>>))
    /\ stream' = <<>>
    /\ package_artifact' = None
    /\ echoed' = <<>>
    /\ Goto("artifact_cdylib")
    /\ UNCHANGED <<arguments, returned,
                   command, cli, options, adb_installed, devices, device, queried,
                   apk_target, artifact, apk_path, pem>>

\* Path::strip_prefix("/")
strip_root(path) ==
    IF path # <<>> /\ Head(path) = "/"
    THEN [err |-> None, path |-> Tail(path)]
    ELSE [err |-> Some(ErrStripPrefix), path |-> <<>>]

\* lib_path of build_apk, for an artifact whose cdylib was found
lib_path_of(a) == join(WorkspaceRoot, strip_root(artifact_cdylib(a).path).path)

\* apk_path of build_apk: <parent of lib_path>/<package name>.apk
apk_path_of(a) == join(parent(lib_path_of(a)), <<PackageName \o ".apk">>)

\* sdk_path and dex_path of build_apk
sdk_path == sdk_jar_path(TargetDirectory, SdkVersion)

dex_path == join(parent(sdk_path), <<"classes.dex">>)

\* let lib_path = artifact_cdylib(&artifact)?.strip_prefix("/")?; .. apk_path, dex_path
ArtifactCdylib ==
    /\ pc = "artifact_cdylib"
    /\ LET found == artifact_cdylib(artifact[1]) IN
       IF found.err # None
       THEN Fail(found.err[1]) /\ apk_path' = apk_path
       ELSE IF strip_root(found.path).err # None
       THEN Fail(ErrStripPrefix) /\ apk_path' = apk_path
       ELSE Goto("write_classes_dex") /\ apk_path' = Some(apk_path_of(artifact[1]))
    /\ UNCHANGED <<arguments, returned, echoed,
                   command, cli, options, adb_installed, fs, devices, device, queried,
                   apk_target, stream, package_artifact, artifact, pem, downloads, calls>>

\* a build_apk that goes from add_res straight to add_lib
assembly_next_without_dex(step) ==
    CASE step = "write_classes_dex" -> "apk_new"
      [] step = "apk_new" -> "add_res"
      [] step = "add_res" -> "add_lib"
      [] step = "add_dex" -> "add_lib"
      [] step = "add_lib" -> "load_pem"
      [] step = "signer_new" -> "finish"

\* the call build_apk makes after each successful call of its assembly
assembly_next(step) ==
    CASE step = "write_classes_dex" -> "apk_new"
      [] step = "apk_new" -> "add_res"
      [] step = "add_res" -> "add_dex"
      [] step = "add_dex" -> "add_lib"
      [] step = "add_lib" -> "load_pem"
      [] step = "signer_new" -> "finish"

\* an external call of build_apk that either succeeds or ends the run
Step(call, next, err) ==
    /\ Log(call)
    /\ \E ok \in BOOLEAN : IF ok THEN Goto(next) ELSE Fail(err)

\* fs::write(&dex_path, CLASSES_DEX).wrap_err(..)?
WriteClassesDex ==
    /\ pc = "write_classes_dex"
    /\ Step(Call("write", <<dex_path>>), assembly_next(pc), ErrWriteDex)
    /\ UNCHANGED <<arguments, returned, echoed,
                   command, cli, options, adb_installed, fs, devices, device, queried,
                   apk_target, stream, package_artifact, artifact, apk_path, pem,
                   downloads>>

\* apk::Apk::new(apk_path.clone(), manifest.clone(), true)?
ApkNew ==
    /\ pc = "apk_new"
    /\ Step(Call("Apk::new", <<apk_path[1]>>), assembly_next(pc), ErrApk)
    /\ UNCHANGED <<arguments, returned, echoed,
                   command, cli, options, adb_installed, fs, devices, device, queried,
                   apk_target, stream, package_artifact, artifact, apk_path, pem,
                   downloads>>

\* apk.add_res(icon_path, sdk_path)?
AddRes ==
    /\ pc = "add_res"
    /\ Step(Call("add_res", <<sdk_path>>), assembly_next(pc), ErrApk)
    /\ UNCHANGED <<arguments, returned, echoed,
                   command, cli, options, adb_installed, fs, devices, device, queried,
                   apk_target, stream, package_artifact, artifact, apk_path, pem,
                   downloads>>

\* apk.add_dex(dex_path)?
AddDex ==
    /\ pc = "add_dex"
    /\ Step(Call("add_dex", <<dex_path>>), assembly_next(pc), ErrApk)
    /\ UNCHANGED <<arguments, returned, echoed,
                   command, cli, options, adb_installed, fs, devices, device, queried,
                   apk_target, stream, package_artifact, artifact, apk_path, pem,
                   downloads>>

\* apk.add_lib(apk_target, lib_path)?
AddLib ==
    /\ pc = "add_lib"
    /\ Step(Call("add_lib", <<apk_target[1], lib_path_of(artifact[1])>>),
            assembly_next(pc), ErrApk)
    /\ UNCHANGED <<arguments, returned, echoed,
                   command, cli, options, adb_installed, fs, devices, device, queried,
                   apk_target, stream, package_artifact, artifact, apk_path, pem,
                   downloads>>

\* the bundled development key, include_str!("debug.pem")
DebugPem == "debug.pem"

\* what fs::read_to_string returns for a key file that can be read
contents_of(path) == "contents of " \o path[1]

\* a key selection that always takes the bundled key
select_pem_bundled(key_path) == DebugPem

\* the `match options.pem` of build_apk once a given file has been read
select_pem(key_path) == IF key_path # None THEN contents_of(key_path[1]) ELSE DebugPem

\* let pem = match options.pem { Some(pem) => fs::read_to_string(pem)?, None => debug }
LoadPem ==
    /\ pc = "load_pem"
    /\ IF options.pem # None
       THEN /\ Log(Call("read_to_string", <<options.pem[1]>>))
            /\ \E read \in BOOLEAN :
                 IF read
                 THEN Goto("signer_new") /\ pem' = Some(select_pem(options.pem))
                 ELSE Fail(ErrPem) /\ pem' = pem
       ELSE /\ Goto("signer_new")
            /\ pem' = Some(select_pem(options.pem))
            /\ calls' = calls
    /\ UNCHANGED <<arguments, returned, echoed,
                   command, cli, options, adb_installed, fs, devices, device, queried,
                   apk_target, stream, package_artifact, artifact, apk_path, downloads>>

\* apk::Signer::new(&pem)?
SignerNew ==
    /\ pc = "signer_new"
    /\ Step(Call("Signer::new", <<pem[1]>>), assembly_next(pc), ErrSigner)
    /\ UNCHANGED <<arguments, returned, echoed,
                   command, cli, options, adb_installed, fs, devices, device, queried,
                   apk_target, stream, package_artifact, artifact, apk_path, pem,
                   downloads>>

\* apk.finish(Some(signer))?; Ok(apk_path): build_apk returns to Command::run
\* (Build) or to install_apk (Install)
Finish ==
    /\ pc = "finish"
    /\ Log(Call("finish", <<pem[1]>>))
    /\ \E ok \in BOOLEAN :
         IF ~ok THEN Fail(ErrApk)
         ELSE IF command = "Install" THEN Goto("adb_install")
         ELSE pc' = "done" /\ result' = "Ok"
    /\ UNCHANGED <<arguments, returned, echoed,
                   command, cli, options, adb_installed, fs, devices, device, queried,
                   apk_target, stream, package_artifact, artifact, apk_path, pem,
                   downloads>>

\* an install that is handed the directory of the package
install_args_dir(dev, path) == <<dev.id, parent(path)>>

\* the arguments install_apk gives adb: .arg("-s").arg(&device.id).arg("install")
\* .arg(&apk_path)
install_args(dev, path) == <<dev.id, path>>

\* install_apk: `adb -s <id> install <apk_path>` and its exit status
AdbInstall ==
    /\ pc = "adb_install"
    /\ Log(Call("adb install", install_args(device[1], apk_path[1])))
    /\ \E outcome \in {"spawn failed", "exit failure", "exit success"} :
         CASE outcome = "spawn failed"  -> Fail(ErrSpawn)
           [] outcome = "exit failure"  -> Fail(ErrInstall)
           [] outcome = "exit success"  -> pc' = "done" /\ result' = "Ok"
    /\ UNCHANGED <<arguments, returned, echoed,
                   command, cli, options, adb_installed, fs, devices, device, queried,
                   apk_target, stream, package_artifact, artifact, apk_path, pem,
                   downloads>>

\* ------------------------------------------------------- specifications
\* the steps of `apk build`
BuildNext ==
    \/ GetCargoMetadata
    \/ GetPackage
    \/ OriMetadataFromPackage
    \/ MetadataFromPackage
    \/ ApkManifest
    \/ EnsureCrossInstalled
    \/ ResolveTarget
    \/ BuildLibSpawn
    \/ BuildLibMessage
    \/ BuildLibReadError
    \/ BuildLibEnd
    \/ DownloadAndroidSdk
    \/ ArtifactCdylib
    \/ WriteClassesDex
    \/ ApkNew
    \/ AddRes
    \/ AddDex
    \/ AddLib
    \/ LoadPem
    \/ SignerNew
    \/ Finish

\* the steps `apk install` adds
InstallNext ==
    \/ GetDevices
    \/ SelectDevice
    \/ EnsureAdbInstalled
    \/ AdbInstall

Next == BuildNext \/ InstallNext

\* one run of the tool, `apk build` or `apk install`
Spec == Init /\ [][Next]_vars

\* the tool is run again on the same build directory
StartRun ==
    /\ pc = "done"
    /\ downloads < MaxDownloads
    /\ cli' \in BuildOptions
    /\ options' = cli'
    /\ pc' = "get_cargo_metadata"
    /\ result' = "running"
    /\ apk_target' = None
    /\ stream' = <<>>
    /\ package_artifact' = None
    /\ artifact' = None
    /\ apk_path' = None
    /\ pem' = None
    /\ calls' = <<>>
    /\ echoed' = <<>>
    /\ UNCHANGED <<arguments, returned,
                   command, adb_installed, fs, devices, device, queried, downloads>>

InitBuilds == Init /\ command = "Build" /\ adb_installed

NextBuilds == BuildNext \/ StartRun

\* `apk build` run repeatedly on one build directory
SpecBuilds == InitBuilds /\ [][NextBuilds]_vars

\* ------------------------------------------------- build_apk of main.rs
\* ApkBuildOptions: `target` is a required String
ApkBuildOptions == {o \in BuildOptions : o.target # None}

\* `cargo ori apk build` of main.rs starts; it never uses adb
InitMain ==
    /\ command = "ApkBuild"
    /\ cli \in ApkBuildOptions
    /\ options = cli
    /\ adb_installed = FALSE
    /\ fs \in FsStates
    /\ pc = "main: cross_installed"
    /\ result = "running"
    /\ devices = None
    /\ device = None
    /\ queried = <<>>
    /\ apk_target = None
    /\ stream = <<>>
    /\ package_artifact = None
    /\ artifact = None
    /\ apk_path = None
    /\ pem = None
    /\ downloads = 0
    /\ calls = <<>>
    /\ echoed = <<>>
    /\ arguments = None
    /\ returned = None

\* what no step of main.rs's build_apk changes
MainFixed ==
    UNCHANGED <<arguments, returned, command, cli, options, adb_installed, devices,
                device, queried, pem, echoed>>

\* the status process::exit(1) ends the process with
MainExit == "exit status 1"

\* if !cross_installed()? { eprintln!(..); process::exit(1) }
MainCrossInstalled ==
    /\ pc = "main: cross_installed"
    /\ Log(Call("cross --version", <<>>))
    /\ \E outcome \in {"spawn failed", "exit failure", "exit success"} :
         CASE outcome = "spawn failed"  -> Fail(ErrRunCross)
           [] outcome = "exit failure"  -> Fail(MainExit)
           [] outcome = "exit success"  -> Goto("main: match_target")
    /\ MainFixed
    /\ UNCHANGED <<fs, apk_target, stream, package_artifact, artifact, apk_path,
                   downloads>>

\* let apk_target = match options.target.as_str() {..}
MainMatchTarget ==
    /\ pc = "main: match_target"
    /\ LET arch == apk_target_of(options.target[1]) IN
       IF arch = None
       THEN Fail(ErrUnsupported) /\ apk_target' = apk_target
       ELSE Goto("main: cargo_metadata") /\ apk_target' = arch
    /\ MainFixed
    /\ UNCHANGED <<fs, stream, package_artifact, artifact, apk_path, downloads, calls>>

\* let metadata = cargo_metadata()?
MainCargoMetadata ==
    /\ pc = "main: cargo_metadata"
    /\ Step(Call("cargo metadata", <<>>), "main: package", ErrMetadata)
    /\ MainFixed
    /\ UNCHANGED <<fs, apk_target, stream, package_artifact, artifact, apk_path,
                   downloads>>

\* let package = match options.package {..}
MainPackage ==
    /\ pc = "main: package"
    /\ \E found \in BOOLEAN :
         IF found THEN Goto("main: build_android") ELSE Fail(ErrNoPackage)
    /\ MainFixed
    /\ UNCHANGED <<fs, apk_target, stream, package_artifact, artifact, apk_path,
                   downloads, calls>>

\* build_android: the `cross build` command is put together and spawned
MainBuildAndroidSpawn ==
    /\ pc = "main: build_android"
    /\ Step(Call("cross build", <<options.target[1], options.offline>>),
            "main: build_android_loop", ErrRunCross)
    /\ MainFixed
    /\ UNCHANGED <<fs, apk_target, stream, package_artifact, artifact, apk_path,
                   downloads>>

\* build_android: one message is read from the compiler; only an artifact of the
\* package is acted on, nothing is printed
MainBuildAndroidMessage ==
    /\ pc = "main: build_android_loop"
    /\ Len(stream) < MaxStream
    /\ \E message \in Messages :
         /\ stream' = Append(stream, message)
         /\ package_artifact' = build_android(Append(stream, message))
    /\ Goto("main: build_android_loop")
    /\ MainFixed
    /\ UNCHANGED <<fs, apk_target, artifact, apk_path, downloads, calls>>

\* build_android: `message?` on a stream that cannot be read
MainBuildAndroidReadError ==
    /\ pc = "main: build_android_loop"
    /\ Fail(ErrStream)
    /\ MainFixed
    /\ UNCHANGED <<fs, apk_target, stream, package_artifact, artifact, apk_path,
                   downloads, calls>>

\* build_android: the stream ends; package_artifact.ok_or_else(..) is returned
MainBuildAndroidEnd ==
    /\ pc = "main: build_android_loop"
    /\ LET r == build_lib_result(package_artifact) IN
       IF r.err = None
       THEN Goto("main: download_android_sdk") /\ artifact' = r.artifact
       ELSE Fail(r.err[1]) /\ artifact' = artifact
    /\ MainFixed
    /\ UNCHANGED <<fs, apk_target, stream, package_artifact, apk_path, downloads,
                   calls>>

\* download_android_sdk(&metadata.target_directory, 34)? of main.rs; build_android
\* has returned and its reader is no longer followed
MainDownloadAndroidSdk ==
    /\ pc = "main: download_android_sdk"
    /\ IF sdk_download(fs)
       THEN /\ \E left \in DownloadOutcomes :
                 fs' = [dir |-> fs.dir \/ left.dir, jar |-> fs.jar \/ left.jar]
            /\ downloads' = downloads + 1
            /\ calls' = calls \o <<Call("exists", <<fs.jar>>),
                                   Call("download_and_extract_packages",
                                        <<"platforms;android-" \o ToString(SdkVersion)>>)>>
       ELSE /\ UNCHANGED <<fs, downloads>>
            /\ Log(Call("exists", <<fs.jar>>))
    /\ stream' = <<>>
    /\ package_artifact' = None
    /\ Goto("main: mobile_metadata")
    /\ MainFixed
    /\ UNCHANGED <<apk_target, artifact, apk_path>>

\* let mobile_metadata = MobileMetadata::get(package)?
MainMobileMetadata ==
    /\ pc = "main: mobile_metadata"
    /\ Step(Call("MobileMetadata::get", <<>>), "main: apk_metadata", ErrSchema)
    /\ MainFixed
    /\ UNCHANGED <<fs, apk_target, stream, package_artifact, artifact, apk_path,
                   downloads>>

\* let apk_metadata = ApkMetadata::get(package)?
MainApkMetadata ==
    /\ pc = "main: apk_metadata"
    /\ Step(Call("ApkMetadata::get", <<>>), "main: manifest", ErrSchema)
    /\ MainFixed
    /\ UNCHANGED <<fs, apk_target, stream, package_artifact, artifact, apk_path,
                   downloads>>

\* the manifest is put together in place
MainManifest ==
    /\ pc = "main: manifest"
    /\ Log(Call("manifest", <<>>))
    /\ Goto("main: artifact_cdylib")
    /\ MainFixed
    /\ UNCHANGED <<fs, apk_target, stream, package_artifact, artifact, apk_path,
                   downloads>>

\* let lib_path = artifact_cdylib(&artifact)?.strip_prefix("/")?; .. apk_path
MainArtifactCdylib ==
    /\ pc = "main: artifact_cdylib"
    /\ LET found == artifact_cdylib(artifact[1]) IN
       IF found.err # None
       THEN Fail(found.err[1]) /\ apk_path' = apk_path
       ELSE IF strip_root(found.path).err # None
       THEN Fail(ErrStripPrefix) /\ apk_path' = apk_path
       ELSE Goto("main: apk_new") /\ apk_path' = Some(apk_path_of(artifact[1]))
    /\ MainFixed
    /\ UNCHANGED <<fs, apk_target, stream, package_artifact, artifact, downloads,
                   calls>>

\* apk::Apk::new(apk_path, manifest, true)?
MainApkNew ==
    /\ pc = "main: apk_new"
    /\ Step(Call("Apk::new", <<apk_path[1]>>), "main: add_res", ErrApk)
    /\ MainFixed
    /\ UNCHANGED <<fs, apk_target, stream, package_artifact, artifact, apk_path,
                   downloads>>

\* apk.add_res(None, sdk_path.as_ref())?
MainAddRes ==
    /\ pc = "main: add_res"
    /\ Step(Call("add_res", <<sdk_path>>), "main: add_lib", ErrApk)
    /\ MainFixed
    /\ UNCHANGED <<fs, apk_target, stream, package_artifact, artifact, apk_path,
                   downloads>>

\* apk.add_lib(apk_target, lib_path.as_ref())?
MainAddLib ==
    /\ pc = "main: add_lib"
    /\ Step(Call("add_lib", <<apk_target[1], lib_path_of(artifact[1])>>), "main: finish",
            ErrApk)
    /\ MainFixed
    /\ UNCHANGED <<fs, apk_target, stream, package_artifact, artifact, apk_path,
                   downloads>>

\* apk.finish(None)?; Ok(())
MainFinish ==
    /\ pc = "main: finish"
    /\ Log(Call("finish", <<>>))
    /\ \E ok \in BOOLEAN :
         IF ok THEN pc' = "done" /\ result' = "Ok" ELSE Fail(ErrApk)
    /\ MainFixed
    /\ UNCHANGED <<fs, apk_target, stream, package_artifact, artifact, apk_path,
                   downloads>>

MainNext ==
    \/ MainCrossInstalled
    \/ MainMatchTarget
    \/ MainCargoMetadata
    \/ MainPackage
    \/ MainBuildAndroidSpawn
    \/ MainBuildAndroidMessage
    \/ MainBuildAndroidReadError
    \/ MainBuildAndroidEnd
    \/ MainDownloadAndroidSdk
    \/ MainMobileMetadata
    \/ MainApkMetadata
    \/ MainManifest
    \/ MainArtifactCdylib
    \/ MainApkNew
    \/ MainAddRes
    \/ MainAddLib
    \/ MainFinish

InitTools == (Init /\ command = "Build") \/ InitMain

NextTools == BuildNext \/ MainNext

\* one run of a Build workflow: `apk build` of apk.rs or `apk build` of main.rs
SpecTools == InitTools /\ [][NextTools]_vars

\* ---------------------------------------------------------- apk_manifest
\* cargo_metadata::Package: the name, as its words and separators, and the version
Packages ==
    [name : {<<"my", "-", "app">>, <<"app">>, <<"my", "-", "cool", "_", "app">>},
     version : {[major |-> 1, minor |-> 2, patch |-> 3],
                [major |-> 0, minor |-> 10, patch |-> 0]}]

\* the general metadata block of the package, [package.metadata.ori]; the fields
\* are those of main.rs's MobileMetadata, of which apk_manifest reads `name`
OriMetadatas ==
    [name : {None, Some(<<"My App">>)},
     package : {None, Some(<<"com", ".", "general", ".", "app">>)}]

\* Metadata, the package-specific block [package.metadata.apk] (apk.rs)
Metadatas ==
    [package : {None, Some(<<"com", ".", "example", ".", "app">>)},
     version_code : {None, Some(7)},
     version_name : {None, Some("2.0-beta")},
     uses_feature : {<<>>, <<"android.hardware.vulkan.level">>},
     uses_permission : {<<>>, <<"android.permission.INTERNET">>}]

\* ApkMetadata of main.rs: Metadata without the package field
ApkMetadatas ==
    [version_code : {None, Some(7)},
     version_name : {None, Some("2.0-beta")},
     uses_feature : {<<>>, <<"android.hardware.vulkan.level">>},
     uses_permission : {<<>>, <<"android.permission.INTERNET">>}]

\* str::replace(from, to) on a text given as its words and separators
replace(text, from, to) ==
    [i \in 1..Len(text) |-> IF text[i] = from THEN to ELSE text[i]]

\* semver::Version::to_string()
version_to_string(v) ==
    ToString(v.major) \o "." \o ToString(v.minor) \o "." \o ToString(v.patch)

\* the fixed platform numbers of apk_manifest
ManifestVersion == 34

ManifestVersionCode == 14

MinVersion == 21

DefaultVersionCode == 1

\* a resolution that never reads the metadata field
or_default_ignored(field, default) == default

\* the `match field { Some(v) => v, None => default }` of apk_manifest
or_default(field, default) == IF field # None THEN field[1] ELSE default

\* format!(".{}", package.name.replace("-", "_")) of apk_manifest
default_package(name) == <<".">> \o replace(name, "-", "_")

\* format!("org.{}", package.name.replace("-", "_")) of main.rs's build_apk
main_default_package(name) == <<"org.">> \o replace(name, "-", "_")

\* the uses-feature and uses-permission entries pushed for the metadata's lists
features_of(names) ==
    [i \in 1..Len(names) |-> [name |-> Some(names[i]), required |-> None]]

permissions_of(names) ==
    [i \in 1..Len(names) |-> [name |-> names[i], max_sdk_version |-> None]]

\* apk_manifest(package, &ori_metadata, &apk_metadata)
apk_manifest(package, ori_metadata, apk_metadata) ==
    [compile_sdk_version |-> Some(ManifestVersion),
     platform_build_version_code |-> Some(ManifestVersion),
     compile_sdk_version_codename |-> Some(ManifestVersionCode),
     platform_build_version_name |-> Some(ManifestVersionCode),
     target_sdk_version |-> Some(ManifestVersion),
     min_sdk_version |-> Some(MinVersion),
     package |-> Some(or_default(apk_metadata.package, default_package(package.name))),
     version_code |-> Some(or_default(apk_metadata.version_code, DefaultVersionCode)),
     version_name |->
         Some(or_default(apk_metadata.version_name, version_to_string(package.version))),
     uses_feature |-> features_of(apk_metadata.uses_feature),
     uses_permission |-> permissions_of(apk_metadata.uses_permission),
     label |-> Some(or_default(ori_metadata.name, package.name)),
     has_code |-> None,
     activity |-> [name |-> Some("ori.oriactivity.OriActivity"),
                   lib_name |-> replace(package.name, "-", "_"),
                   label |-> Some(or_default(ori_metadata.name, package.name))]]

\* the manifest main.rs's build_apk puts together
main_manifest(package, mobile_metadata, apk_metadata) ==
    [compile_sdk_version |-> Some(ManifestVersion),
     platform_build_version_code |-> Some(ManifestVersion),
     compile_sdk_version_codename |-> Some(ManifestVersionCode),
     platform_build_version_name |-> Some(ManifestVersionCode),
     target_sdk_version |-> Some(ManifestVersion),
     min_sdk_version |-> Some(MinVersion),
     package |->
         Some(or_default(mobile_metadata.package, main_default_package(package.name))),
     version_code |-> Some(or_default(apk_metadata.version_code, DefaultVersionCode)),
     version_name |->
         Some(or_default(apk_metadata.version_name, version_to_string(package.version))),
     uses_feature |-> features_of(apk_metadata.uses_feature),
     uses_permission |-> permissions_of(apk_metadata.uses_permission),
     label |-> Some(or_default(mobile_metadata.name, package.name)),
     has_code |-> Some(FALSE),
     activity |-> [name |-> Some("android.app.NativeActivity"),
                   lib_name |-> replace(package.name, "-", "_"),
                   label |-> Some(or_default(mobile_metadata.name, package.name))]]

\* the rest of the state while a function is examined on its own
Examining(call) ==
    /\ command = "Build"
    /\ cli = [target |-> None, offline |-> FALSE, pem |-> None]
    /\ options = cli
    /\ adb_installed = TRUE
    /\ fs = [dir |-> FALSE, jar |-> FALSE]
    /\ pc = call
    /\ result = "running"
    /\ devices = None
    /\ device = None
    /\ queried = <<>>
    /\ apk_target = None
    /\ stream = <<>>
    /\ package_artifact = None
    /\ artifact = None
    /\ apk_path = None
    /\ pem = None
    /\ downloads = 0
    /\ calls = <<>>
    /\ echoed = <<>>
    /\ returned = None

\* the examined function returns
Return(value) ==
    /\ returned' = Some(value)
    /\ pc' = "done"
    /\ result' = "Ok"
    /\ UNCHANGED <<arguments, command, cli, options, adb_installed, fs, devices, device,
                   queried, apk_target, stream, package_artifact, artifact, apk_path,
                   pem, downloads, calls, echoed>>

InitManifest ==
    /\ \/ /\ Examining("apk_manifest of apk.rs")
          /\ arguments \in [package : Packages, ori_metadata : OriMetadatas,
                            apk_metadata : Metadatas]
       \/ /\ Examining("manifest of main.rs")
          /\ arguments \in [package : Packages, mobile_metadata : OriMetadatas,
                            apk_metadata : ApkMetadatas]

\* apk_manifest is applied to the package and its two metadata blocks
CallApkManifest ==
    /\ pc = "apk_manifest of apk.rs"
    /\ Return(apk_manifest(arguments.package, arguments.ori_metadata,
                           arguments.apk_metadata))

\* main.rs's build_apk puts its manifest together
CallMainManifest ==
    /\ pc = "manifest of main.rs"
    /\ Return(main_manifest(arguments.package, arguments.mobile_metadata,
                            arguments.apk_metadata))

NextManifest == CallApkManifest \/ CallMainManifest

\* manifest synthesis on its own, over packages and metadata blocks
SpecManifest == InitManifest /\ [][NextManifest]_vars

\* ------------------------------------------------- get_devices on its own
InitDevices ==
    /\ Examining("get_devices")
    /\ arguments \in [output : AdbOutputs, getprop : [DeviceIds -> AbiReplies]]

\* get_devices is applied to what `adb devices` printed and what each device
\* answers to getprop
CallGetDevices ==
    /\ pc = "get_devices"
    /\ arguments # None
    /\ Return(get_devices(arguments.output, arguments.getprop))

NextDevices == CallGetDevices

\* device enumeration on its own, over outputs of the bridge
SpecDevices == InitDevices /\ [][NextDevices]_vars

\* --------------------------------------------------- build_lib on its own
\* the package_artifact the loop of build_lib leaves for a whole stream
RECURSIVE build_lib_loop(_, _)
build_lib_loop(candidate, messages) ==
    IF messages = <<>> THEN candidate
    ELSE build_lib_loop(build_lib_step(candidate, Head(messages)), Tail(messages))

\* a build_lib that waits for the compiler and fails on an unsuccessful exit
build_lib_checked(messages, exit_status) ==
    IF exit_status # "success" THEN [err |-> Some(ErrRunCross), artifact |-> None]
    ELSE build_lib_result(build_lib_loop(None, messages))

\* build_lib on a readable stream of a compiler that ends with exit_status: the
\* child is never waited for and its status is never read
build_lib(messages, exit_status) == build_lib_result(build_lib_loop(None, messages))

\* the streams of up to MaxStream messages
Streams == UNION {[1..n -> Messages] : n \in 0..MaxStream}

InitLib ==
    /\ Examining("build_lib")
    /\ arguments \in [messages : Streams, exit_status : {"success", "failure"}]

\* build_lib is applied to what the compiler wrote and how it exited
CallBuildLib ==
    /\ pc = "build_lib"
    /\ arguments # None
    /\ Return(build_lib(arguments.messages, arguments.exit_status))

NextLib == CallBuildLib

\* build_lib on its own, over streams and exit statuses of the compiler
SpecLib == InitLib /\ [][NextLib]_vars

\* ------------------------------------------------------------- properties
ContainerOps == {"Apk::new", "add_res", "add_dex", "add_lib", "finish"}

CalledAny(ops) == \E i \in 1..Len(calls) : calls[i].op \in ops

\* the triples and ABI strings the two tables of apk.rs recognize
RecognizedTriples == {"aarch64-linux-android", "arm7-linux-androidabi",
                      "x86_64-linux-android", "i686-linux-android"}

RecognizedAbis == {"arm64-v8a", "armabi-v7a", "x86_64", "x86"}

\* the errors a run can end with before build_apk looks at the target
BeforeTargetErrors ==
    {ErrMetadata, ErrNoPackage, ErrSchema, ErrSpawn, ErrUtf8, ErrMalformed,
     ErrUnknownAbi, ErrNoDevice, ErrAdb, ErrCross}

\* the target the precedence rule names: the explicit one, else the device's
PrecedenceTarget ==
    IF cli.target # None THEN cli.target
    ELSE IF device # None THEN Some(target_triple(device[1].arch))
    ELSE None

\* C1: target precedence.  The compiler is only ever run for the explicit
\* --target when one was given (in Install also when the device differs), else
\* for the triple of the selected device; the library is packaged for the
\* architecture of that same target; Install leaves exactly that target in the
\* options; and a Build run without --target never runs the compiler and, once
\* it has got as far as the target, ends with "Target not specified".
C1_TargetPrecedence ==
    /\ \A i \in 1..Len(calls) :
         /\ calls[i].op = "cross build" =>
              PrecedenceTarget # None /\ calls[i].args[1] = PrecedenceTarget[1]
         /\ calls[i].op = "add_lib" =>
              /\ PrecedenceTarget # None
              /\ Some(calls[i].args[1]) = apk_target_of(PrecedenceTarget[1])
    /\ (command = "Install" /\ device # None) => options.target = PrecedenceTarget
    /\ (command = "Build" /\ cli.target = None) =>
         /\ ~Called("cross build")
         /\ pc = "done" => result \in BeforeTargetErrors \cup {ErrNoTarget}
         /\ (pc = "done" /\ Called("cross --version") /\ result # ErrCross) =>
              result = ErrNoTarget

\* C1 witness: an Install run packages the library for an explicit target that
\* is not the architecture of the selected device
C1_Witness ==
    /\ command = "Install"
    /\ cli.target # None
    /\ device # None
    /\ cli.target[1] # target_triple(device[1].arch)
    /\ Called("add_lib")

\* C2: Install with one attached device and no --target: the inferred target is
\* accepted for each of the four architectures, the library is added for the
\* architecture of the device, and the run never ends with "unsupported target"
\* or "target not specified".
C2_InferredTargetAccepted ==
    (command = "Install" /\ cli.target = None /\ device # None) =>
        /\ result \notin {ErrUnsupported, ErrNoTarget}
        /\ apk_target \in {None, Some(device[1].arch)}
        /\ \A i \in 1..Len(calls) :
             calls[i].op = "add_lib" => calls[i].args[1] = device[1].arch

\* C3: the triple Device::target_triple gives for the architecture of any
\* listed device is parsed back by build_apk to that architecture, and the
\* triple and ABI tables are one-to-one onto the four architectures.
C3_TripleRoundTrip ==
    /\ devices # None =>
         \A i \in 1..Len(devices[1]) :
            apk_target_of(target_triple(devices[1][i].arch)) = Some(devices[1][i].arch)
    /\ \A t1, t2 \in RecognizedTriples :
         apk_target_of(t1) = apk_target_of(t2) => t1 = t2
    /\ {apk_target_of(t)[1] : t \in RecognizedTriples} = Targets
    /\ \A a1, a2 \in RecognizedAbis :
         abi_target_of(a1) = abi_target_of(a2) => a1 = a2
    /\ {abi_target_of(a)[1] : a \in RecognizedAbis} = Targets

\* build_apk has matched the target: the probe for `cross` was made and passed,
\* and the step after it was taken
TargetMatched ==
    Called("cross --version") /\ pc # "resolve_target" /\ result # ErrCross

\* C4: an unrecognized string is a hard failure.  Once build_apk has matched a
\* target outside the four triples the run has ended with the unsupported-target
\* error, no architecture was chosen and nothing was built; and once a device
\* has answered with an ABI outside the four ABI strings the run has ended with
\* the unknown-ABI error and no device list was returned.
C4_UnknownStringsFail ==
    /\ (TargetMatched /\ options.target # None
          /\ options.target[1] \notin RecognizedTriples) =>
         /\ pc = "done" /\ result = ErrUnsupported
         /\ apk_target = None
         /\ ~Called("cross build") /\ ~CalledAny(ContainerOps)
    /\ \A i \in 1..Len(queried) :
         (/\ queried[i].reply # InvalidUtf8
          /\ trim(queried[i].reply) \notin {<<abi>> : abi \in RecognizedAbis}) =>
             /\ pc = "done" /\ result = ErrUnknownAbi
             /\ devices = None /\ device = None
             /\ i = Len(queried)

\* C4 witness: the second of two attached devices reports an ABI string that is
\* not in the table
C4_Witness ==
    /\ Len(queried) = 2
    /\ trim(queried[1].reply) = <<"arm64-v8a">>
    /\ trim(queried[2].reply) = <<"armeabi-v7a">>
    /\ result = ErrUnknownAbi

\* download_android_sdk found no cached android.jar in this run
SdkMissed ==
    \E i \in 1..Len(calls) : calls[i].op = "exists" /\ calls[i].args[1] = FALSE

\* C5: a run with --offline makes no download-and-extract call; when it finds
\* no cached SDK resource it reaches no container-writer step and ends with the
\* error "offline, resource missing".
C5_OfflineNeverDownloads ==
    cli.offline =>
        /\ ~Called("download_and_extract_packages")
        /\ SdkMissed =>
             /\ ~CalledAny(ContainerOps)
             /\ pc = "done" /\ result = "offline, resource missing"

\* C6 as stated: over any sequence of calls the download-and-extract work is
\* performed at most once.
C6_AtMostOneDownload == downloads <= 1

\* C6 as amended: download_android_sdk downloads exactly when android.jar is
\* absent at the time of the call, whether or not its directory exists; while
\* the file exists no call downloads and the file stays; so at most one
\* download that leaves the file in place is ever made.
C6_CacheIdempotent ==
    [][ /\ fs.jar => (downloads' = downloads /\ fs'.jar)
        /\ downloads' # downloads => (~fs.jar /\ downloads' = downloads + 1)
        /\ (pc = "download_android_sdk" /\ ~fs.jar) => downloads' = downloads + 1
      ]_vars

\* C6 witness: a run finds the file cached that an earlier run downloaded
C6_Witness ==
    /\ downloads = 1
    /\ fs.jar
    /\ \E i \in 1..Len(calls) : calls[i].op = "exists" /\ calls[i].args[1] = TRUE
    /\ ~Called("download_and_extract_packages")

\* the messages of a stream that report an artifact of the requested package
IsOwnArtifact(message) ==
    message.kind = "compiler-artifact" /\ message.artifact.package_id = PackageId

HasCdylib(a) == \E i \in 1..Len(a.crate_types) : a.crate_types[i] = "cdylib"

\* C7: the two artifact failures are distinct and exhaustive.  When the stream
\* has ended, build_lib has failed with "Artifact not generated" exactly when
\* no message matched the package; a captured artifact without a cdylib kind
\* ends the run with "No cdylib built" as soon as build_apk looks for the
\* library; and no container-writer step is made in either case.
C7_ArtifactFailures ==
    /\ ErrNoArtifact # ErrNoCdylib
    /\ result = ErrNoArtifact =>
         /\ \A i \in 1..Len(stream) : ~IsOwnArtifact(stream[i])
         /\ artifact = None
         /\ ~CalledAny(ContainerOps)
    /\ pc = "download_android_sdk" =>
         /\ \E i \in 1..Len(stream) : IsOwnArtifact(stream[i])
         /\ artifact # None
    /\ result = ErrNoCdylib =>
         /\ artifact # None /\ ~HasCdylib(artifact[1])
         /\ ~CalledAny(ContainerOps)
    /\ (artifact # None /\ ~HasCdylib(artifact[1])
          /\ pc \notin {"download_android_sdk", "artifact_cdylib"}) =>
         /\ pc = "done" /\ result = ErrNoCdylib
         /\ ~CalledAny(ContainerOps)

\* C7 witness: an artifact was captured, the SDK was resolved, and the run
\* ended because the artifact has no cdylib
C7_Witness ==
    /\ result = ErrNoCdylib
    /\ artifact # None
    /\ Called("exists")

\* the last message of a stream that reports an artifact of the requested
\* package, searched from the end
RECURSIVE LastOwn(_)
LastOwn(messages) ==
    IF messages = <<>> THEN None
    ELSE IF IsOwnArtifact(messages[Len(messages)])
    THEN Some(messages[Len(messages)].artifact)
    ELSE LastOwn(SubSeq(messages, 1, Len(messages) - 1))

\* C8: last write wins.  While build_lib reads the stream its candidate is the
\* last artifact message of the requested package read so far, so artifacts of
\* other packages neither replace nor clear it; the artifact it returns is the
\* last such message of the whole stream, and it fails only when there is none.
\* The loop of build_android in main.rs selects the same artifact.
C8_LastWriteWins ==
    /\ pc = "build_lib_loop" =>
         /\ package_artifact = LastOwn(stream)
         /\ build_android(stream) = LastOwn(stream)
    /\ pc = "download_android_sdk" =>
         artifact # None /\ artifact = LastOwn(stream)
    /\ result = ErrNoArtifact => LastOwn(stream) = None

\* C8 witness: build_lib returns after two different artifacts of the package
\* were reported, and the returned one is the later
C8_Witness ==
    /\ pc = "download_android_sdk"
    /\ \E i, j \in 1..Len(stream) :
         /\ i < j
         /\ IsOwnArtifact(stream[i]) /\ IsOwnArtifact(stream[j])
         /\ stream[i].artifact # stream[j].artifact
         /\ \A k \in (j + 1)..Len(stream) : ~IsOwnArtifact(stream[k])
         /\ artifact = Some(stream[j].artifact)

CountCdylib(a) == Cardinality({i \in 1..Len(a.crate_types) : a.crate_types[i] = "cdylib"})

\* build_apk has looked for the library of the captured artifact
LibraryLookedUp ==
    artifact # None /\ pc \notin {"download_android_sdk", "artifact_cdylib"}

\* C9 as stated: a captured artifact whose output kinds hold no cdylib entry, or
\* more than one, is an error: the run ends there and packages nothing.
C9_ExactlyOneCdylib ==
    (LibraryLookedUp /\ CountCdylib(artifact[1]) # 1) =>
        /\ pc = "done" /\ result = ErrNoCdylib
        /\ apk_path = None
        /\ ~CalledAny(ContainerOps)

\* the index of the first cdylib entry of an artifact that has one
FirstCdylib(a) ==
    CHOOSE i \in 1..Len(a.crate_types) :
        /\ a.crate_types[i] = "cdylib"
        /\ \A j \in 1..(i - 1) : a.crate_types[j] # "cdylib"

\* C9 as amended: an artifact with no cdylib entry is an error; with one or
\* more, the file at the position of the first cdylib entry is the library that
\* is packaged, and no error is raised for the others.
C9_FirstCdylibIsUsed ==
    /\ (LibraryLookedUp /\ CountCdylib(artifact[1]) = 0) =>
         /\ pc = "done" /\ result = ErrNoCdylib
         /\ apk_path = None
         /\ ~CalledAny(ContainerOps)
    /\ (LibraryLookedUp /\ CountCdylib(artifact[1]) >= 1) =>
         /\ result # ErrNoCdylib
         /\ apk_path # None
    /\ \A i \in 1..Len(calls) :
         calls[i].op = "add_lib" =>
            calls[i].args[2] =
                WorkspaceRoot \o Tail(artifact[1].filenames[FirstCdylib(artifact[1])])

\* C9 witness: the library of an artifact with two cdylib entries is packaged
C9_Witness ==
    /\ artifact # None
    /\ CountCdylib(artifact[1]) = 2
    /\ Called("add_lib")

\* the calls that build, resolve the SDK, assemble or install
BuildOrInstallOps ==
    {"cross --version", "cross build", "exists", "download_and_extract_packages",
     "write", "adb install"} \cup ContainerOps

\* C10: once get_devices has returned no device or more than one, the Install
\* run has ended with the device-selection error, no device was selected, and
\* neither the compiler, the SDK resolver, the container writer nor the bridge
\* install was invoked.
C10_NoDeviceDefaulted ==
    (devices # None /\ Len(devices[1]) # 1) =>
        /\ device = None
        /\ ~CalledAny(BuildOrInstallOps)
        /\ pc # "select_device" => (pc = "done" /\ result = ErrNoDevice)

\* C10 witness: two devices are attached and the run has ended
C10_Witness ==
    /\ devices # None
    /\ Len(devices[1]) = 2
    /\ result = ErrNoDevice

\* the run ended in device selection: get_devices returned and no device was
\* selected
SelectionFailed == pc = "done" /\ devices # None /\ device = None

\* C11: the failure of `apk install` with several devices attached can be told
\* from its failure with none attached: the error a run ends with when the list
\* is empty is not the error it ends with when the list holds more than one device
C11_AmbiguousDistinctFromNone ==
    /\ (SelectionFailed /\ Len(devices[1]) = 0) => result = ErrNoDevice
    /\ (SelectionFailed /\ Len(devices[1]) > 1) => result # ErrNoDevice

\* neither metadata block of the examined package sets anything
NoOverrides ==
    /\ arguments.apk_metadata.version_code = None
    /\ arguments.apk_metadata.version_name = None
    /\ arguments.apk_metadata.uses_feature = <<>>
    /\ arguments.apk_metadata.uses_permission = <<>>
    /\ IF "ori_metadata" \in DOMAIN arguments
       THEN arguments.ori_metadata = [name |-> None, package |-> None]
            /\ arguments.apk_metadata.package = None
       ELSE arguments.mobile_metadata = [name |-> None, package |-> None]

\* a project name with every separator turned into an underscore
Underscored(name) ==
    [i \in 1..Len(name) |-> IF name[i] \in {"-", "_"} THEN "_" ELSE name[i]]

\* the prefix of the default package identifier
DefaultPrefix == "."

\* C12: with no metadata overrides the manifest's package identifier is the one
\* fixed default prefix followed by the project name with its separators turned
\* into underscores, wherever the default is computed (apk.rs and main.rs); the
\* version code is 1 and the version name is the project's version string;
\* `my-app` 1.2.3 gives the prefix form of `my_app`, and "1.2.3"
C12_ManifestDefaults ==
    (returned # None /\ NoOverrides) =>
        LET manifest == returned[1]
            package == arguments.package IN
        /\ manifest.package = Some(<<DefaultPrefix>> \o Underscored(package.name))
        /\ manifest.version_code = Some(1)
        /\ package.version = [major |-> 1, minor |-> 2, patch |-> 3]
               => manifest.version_name = Some("1.2.3")
        /\ package.version = [major |-> 0, minor |-> 10, patch |-> 0]
               => manifest.version_name = Some("0.10.0")
        /\ package.name = <<"my", "-", "app">>
               => Tail(manifest.package[1]) = <<"my", "_", "app">>

\* apk_manifest has returned the manifest of the examined package
ApkManifestReturned == returned # None /\ "ori_metadata" \in DOMAIN arguments

\* the first of the three values that is present
FirstPresent(specific, general, default) ==
    IF specific # None THEN specific ELSE IF general # None THEN general ELSE Some(default)

Blank(line) == \A i \in 1..Len(line) : line[i] = WS

\* the lines under the first line that are not blank, in output order
DeviceLines(output) ==
    IF output = <<>> THEN <<>> ELSE SelectSeq(Tail(output), LAMBDA line : ~Blank(line))

\* the first whitespace-delimited token of a line that is not blank
FirstToken(line) ==
    line[CHOOSE i \in 1..Len(line) :
           line[i] # WS /\ \A j \in 1..(i - 1) : line[j] = WS]

\* the ABI a getprop reply names: its text without the surrounding whitespace
AbiOf(reply) == SelectSeq(reply, LAMBDA token : token # WS)

\* the architecture of a recognized ABI string
ArchOfAbi(abi) ==
    CASE abi = "arm64-v8a" -> "Arm64V8a"
      [] abi = "armabi-v7a" -> "ArmV7a"
      [] abi = "x86_64" -> "X86_64"
      [] abi = "x86" -> "X86"

\* every device line can be read and its device reports a recognized ABI
AllDevicesKnown(output, getprop) ==
    \A i \in 1..Len(DeviceLines(output)) :
        LET line == DeviceLines(output)[i] IN
        /\ line # InvalidUtf8
        /\ getprop[FirstToken(line)] # InvalidUtf8
        /\ AbiOf(getprop[FirstToken(line)]) \in {<<abi>> : abi \in RecognizedAbis}

\* C14: get_devices skips the first line of the bridge's output and every blank
\* line, and returns one device per remaining line, in output order, whose id is
\* the line's first token and whose architecture is the mapping of the ABI the
\* device reports; it succeeds whenever every such device reports a recognized
\* ABI; header-only output gives the empty list and no error; the header and the
\* row `deadbeef001 device` with ABI arm64-v8a give one ARM64 device deadbeef001
C14_DeviceInventory ==
    (returned # None /\ pc = "done" /\ "output" \in DOMAIN arguments) =>
        LET output == arguments.output
            getprop == arguments.getprop
            r == returned[1]
            lines == DeviceLines(output) IN
        /\ AllDevicesKnown(output, getprop) <=> r.err = None
        /\ r.err = None =>
             /\ Len(r.devices) = Len(lines)
             /\ \A i \in 1..Len(lines) :
                  /\ r.devices[i].id = FirstToken(lines[i])
                  /\ r.devices[i].arch = ArchOfAbi(AbiOf(getprop[r.devices[i].id])[1])
        /\ output = <<Header>> => r.err = None /\ r.devices = <<>>
        /\ (output = <<Header, DeviceRow("deadbeef001")>>
              /\ getprop["deadbeef001"] = <<"arm64-v8a", WS>>)
             => /\ r.err = None
                /\ r.devices = <<[id |-> "deadbeef001", arch |-> "Arm64V8a"]>>

\* a header, a blank line and one device row were parsed into one device
C14_Witness ==
    /\ returned # None
    /\ "output" \in DOMAIN arguments
    /\ arguments.output = <<Header, <<WS>>, DeviceRow("emulator-5554")>>
    /\ returned[1].err = None
    /\ Len(returned[1].devices) = 1
    /\ returned[1].devices[1].id = "emulator-5554"

\* the errors build_apk can return
BuildErrors ==
    {ErrCross, ErrNoTarget, ErrUnsupported, ErrRunCross, ErrStream, ErrNoArtifact,
     ErrNoCdylib, ErrStripPrefix, ErrWriteDex, ErrApk, ErrPem, ErrSigner, Panic}

\* the calls a successful build_apk of apk.rs makes, in order, from the write of
\* classes.dex on
AssemblyOps == <<"write", "Apk::new", "add_res", "add_dex", "add_lib">>

\* C15: `adb install` is invoked only in `apk install`, only once build_apk has
\* returned its path (the call right before it is the container's successful
\* finish), at most once, with the selected device's id and exactly that path;
\* a run that made the call ends with Ok, 'Install failed' or the spawn error,
\* 'Install failed' arises from nothing else, and a run that ended with an error
\* of build_apk never made the call
C15_InstallAfterBuild ==
    /\ \A i \in 1..Len(calls) :
         calls[i].op = "adb install" =>
            /\ command = "Install"
            /\ i = Len(calls)
            /\ i > 1 /\ calls[i - 1].op = "finish"
            /\ \A k \in 1..Len(AssemblyOps) : Called(AssemblyOps[k])
            /\ device # None /\ apk_path # None
            /\ calls[i].args = <<device[1].id, apk_path[1]>>
            /\ \A j \in 1..Len(calls) : calls[j].op = "adb install" => j = i
            /\ pc = "done"
            /\ result \in {"Ok", ErrInstall, ErrSpawn}
    /\ result = ErrInstall => Called("adb install")
    /\ (command = "Install" /\ result = "Ok") => Called("adb install")
    /\ pc = "adb_install" => calls[Len(calls)].op = "finish"
    /\ result \in BuildErrors => ~Called("adb install")

\* the package was built and handed to adb, which exited unsuccessfully
C15_Witness ==
    /\ command = "Install"
    /\ result = ErrInstall
    /\ Called("finish")
    /\ calls[Len(calls)] = Call("adb install", <<device[1].id, apk_path[1]>>)

\* the adb invocations of `apk install`
BridgeOps == {"adb devices", "adb getprop", "adb install"}

\* C16: the presence probe (`adb version`) precedes every use of the bridge in
\* `apk install`, device enumeration included, and a run on a machine without
\* adb ends with the 'adb not installed' error, not with the spawn error
C16_ProbeBeforeBridge ==
    /\ \A i \in 1..Len(calls) :
         calls[i].op \in BridgeOps => \E j \in 1..(i - 1) : calls[j].op = "adb version"
    /\ (command = "Install" /\ ~adb_installed /\ CalledAny(BridgeOps \cup {"adb version"})
          /\ pc = "done")
         => result = ErrAdb

\* the calls of each step of the Build workflow
MetadataResolverOps ==
    {"cargo metadata", "OriMetadata::from_package", "Metadata::from_package",
     "MobileMetadata::get", "ApkMetadata::get"}

ToolMetadataOps == MetadataResolverOps \ {"cargo metadata"}

ManifestSynthesizerOps == {"apk_manifest", "manifest"}

ArtifactBuilderOps == {"cross build"}

SdkResolverOps == {"exists", "download_and_extract_packages"}

PackageAssemblerOps ==
    {"write", "Apk::new", "add_res", "add_dex", "add_lib", "read_to_string",
     "Signer::new", "finish"}

\* the number of the step a call belongs to, 0 for a call of no step
StepIndex(op, steps) ==
    IF \E a \in 1..Len(steps) : op \in steps[a]
    THEN CHOOSE a \in 1..Len(steps) : op \in steps[a]
    ELSE 0

\* the calls made so far respect the order of steps: no call of a later step is
\* made before a call of an earlier one, and a step is entered only after a call
\* of the step before it
InOrder(steps) ==
    \A j \in 1..Len(calls) :
        LET b == StepIndex(calls[j].op, steps) IN
        b # 0 =>
           /\ \A i \in 1..(j - 1) : StepIndex(calls[i].op, steps) <= b
           /\ b > 1 => \E i \in 1..(j - 1) : StepIndex(calls[i].op, steps) = b - 1

\* a workflow that reported its package did so right after a successful finish
ReturnedAfterFinish ==
    (command \in {"Build", "ApkBuild"} /\ result = "Ok")
        => calls[Len(calls)].op = "finish"

\* C17 as stated: in every run of a Build workflow (`apk build` of apk.rs and
\* build_apk of main.rs) the steps occur in the order
\* Metadata Resolver, Manifest Synthesizer, Artifact Builder, SDK Resolver,
\* Package Assembler, and the path is returned only after a successful finish
C17_StepOrder ==
    /\ InOrder(<<MetadataResolverOps, ManifestSynthesizerOps, ArtifactBuilderOps,
                 SdkResolverOps, PackageAssemblerOps>>)
    /\ ReturnedAfterFinish

\* C17, amended: the Build workflow of apk.rs runs its steps in the stated order;
\* build_apk of main.rs reads the cargo metadata, then runs the Artifact Builder
\* and the SDK Resolver, and only then reads the tool metadata, synthesizes the
\* manifest and assembles the package; both return only after a successful finish
C17_StepOrderByTool ==
    /\ command = "Build" =>
         InOrder(<<MetadataResolverOps, ManifestSynthesizerOps, ArtifactBuilderOps,
                   SdkResolverOps, PackageAssemblerOps>>)
    /\ command = "ApkBuild" =>
         InOrder(<<{"cargo metadata"}, ArtifactBuilderOps, SdkResolverOps,
                   ToolMetadataOps, ManifestSynthesizerOps, PackageAssemblerOps>>)
    /\ ReturnedAfterFinish

\* a Build of apk.rs went through every step, downloaded the SDK and returned
C17_Witness ==
    /\ command = "Build"
    /\ result = "Ok"
    /\ Called("apk_manifest")
    /\ Called("cross build")
    /\ Called("download_and_extract_packages")
    /\ calls[Len(calls)].op = "finish"

\* the container-writer calls made so far, by name and in order
ContainerCalls ==
    LET made == SelectSeq(calls, LAMBDA c : c.op \in ContainerOps) IN
    [i \in 1..Len(made) |-> made[i].op]

IsPrefix(s, t) == Len(s) <= Len(t) /\ \A i \in 1..Len(s) : s[i] = t[i]

\* the container-writer calls follow `order`: each is made at most once, in this
\* order and after all those before it, and a run reports success only with all
\* of them made, finish last
Assembles(order) ==
    /\ IsPrefix(ContainerCalls, order)
    /\ result = "Ok" => ContainerCalls = order /\ calls[Len(calls)].op = "finish"

\* C18 as stated: in every Build workflow (apk.rs and main.rs) the container-writer
\* calls are initialize, add resources, add classes.dex, add native library,
\* finalize, in this order, each at most once and only after every earlier one
\* succeeded; success is reported only after finalize succeeded
C18_AssemblerOrder ==
    Assembles(<<"Apk::new", "add_res", "add_dex", "add_lib", "finish">>)

\* C18, amended: build_apk of apk.rs makes the five calls in the stated order;
\* build_apk of main.rs makes initialize, add resources, add native library,
\* finalize, in this order, and never adds classes.dex; in both each call is made
\* at most once and only after every earlier one succeeded, and success is
\* reported only after finalize succeeded
C18_AssemblerOrderByTool ==
    /\ command = "Build" =>
         Assembles(<<"Apk::new", "add_res", "add_dex", "add_lib", "finish">>)
    /\ command = "ApkBuild" =>
         Assembles(<<"Apk::new", "add_res", "add_lib", "finish">>)

\* a Build of apk.rs made all five calls and succeeded
C18_Witness ==
    /\ command = "Build"
    /\ result = "Ok"
    /\ ContainerCalls = <<"Apk::new", "add_res", "add_dex", "add_lib", "finish">>

\* the SDK resolver's download was made and left no android.jar behind
SdkResolutionFailed == Called("download_and_extract_packages") /\ ~fs.jar

\* C19: a run of `apk build` or `apk install` is over exactly when it has its one
\* result, no call is repeated (get_devices queries each listed device), and once
\* a step has failed no later step is executed: an error ends the run, and after
\* an SDK resolution that failed to produce the resource file no further call is
\* made
C19_FailFast ==
    /\ result # "running" <=> pc = "done"
    /\ \A i \in 1..Len(calls) : \A j \in (i + 1)..Len(calls) :
         calls[i].op = calls[j].op => calls[i].op = "adb getprop"
    /\ SdkResolutionFailed =>
         /\ calls[Len(calls)].op = "download_and_extract_packages"
         /\ result # "Ok"

\* the positions of the compiler's diagnostics in the stream read so far
DiagnosticPositions == {i \in 1..Len(stream) : stream[i].kind = "compiler-message"}

\* what has been printed for diagnostics, in the order printed
EchoedDiagnostics == SelectSeq(echoed, LAMBDA e : e.message.kind = "compiler-message")

\* every diagnostic read so far has been printed once, when it was read, and they
\* were printed in the order read; the candidate artifact is the only thing kept
DiagnosticsEchoed ==
    /\ Len(EchoedDiagnostics) = Cardinality(DiagnosticPositions)
    /\ \A k \in 1..Len(EchoedDiagnostics) :
         /\ EchoedDiagnostics[k].at \in DiagnosticPositions
         /\ EchoedDiagnostics[k].message = stream[EchoedDiagnostics[k].at]
         /\ \A l \in 1..(k - 1) : EchoedDiagnostics[l].at < EchoedDiagnostics[k].at
    /\ package_artifact # None => package_artifact[1].package_id = PackageId

\* C20 as stated: whichever Build workflow consumes the compiler's messages
\* (build_lib of apk.rs, build_android of main.rs), every diagnostic read has been
\* printed exactly once, in stream order, by the time the next message is read,
\* whether the build goes on to succeed or to fail
C20_DiagnosticEcho == DiagnosticsEchoed

\* C20, amended: build_lib of apk.rs prints every diagnostic exactly once, in
\* stream order, when it is read, whether the build succeeds or fails; build_android
\* of main.rs prints nothing
C20_DiagnosticEchoByTool ==
    /\ command = "Build" => DiagnosticsEchoed
    /\ command = "ApkBuild" => echoed = <<>>

\* a build of apk.rs read two diagnostics, printed both and failed for want of an
\* artifact
C20_Witness ==
    /\ command = "Build"
    /\ result = ErrNoArtifact
    /\ Len(stream) = 2
    /\ DiagnosticPositions = {1, 2}
    /\ Len(EchoedDiagnostics) = 2

\* the positions in the stream read so far of messages of the given kinds
PositionsOf(kinds) == {i \in 1..Len(stream) : stream[i].kind \in kinds}

\* the positions whose message was printed
EchoedPositions == {echoed[k].at : k \in 1..Len(echoed)}

\* the kinds that are neither a compiler-artifact nor a compiler-diagnostic
OtherKinds == {"text-line", "build-finished"}

\* the stream read so far without its messages of the given kinds
Without(kinds) == SelectSeq(stream, LAMBDA m : m.kind \notin kinds)

\* C21 as stated: a message read by build_lib that is neither a compiler-artifact
\* nor a compiler-diagnostic is ignored: nothing is printed for it, and the
\* candidate artifact is what it would be had the message not been in the stream
C21_OthersIgnored ==
    /\ EchoedPositions \cap PositionsOf(OtherKinds) = {}
    /\ pc = "build_lib_loop" => package_artifact = LastOwn(Without(OtherKinds))

\* C21, amended: a message that is neither a compiler-artifact, a
\* compiler-diagnostic nor a text line is ignored: nothing is printed for it; a
\* text line is printed, once, when it is read; neither kind changes the
\* candidate artifact
C21_OthersIgnoredButTextLines ==
    /\ EchoedPositions \cap PositionsOf(OtherKinds \ {"text-line"}) = {}
    /\ PositionsOf({"text-line"}) \subseteq EchoedPositions
    /\ \A k \in 1..Len(echoed) :
         /\ echoed[k].at \in 1..Len(stream)
         /\ echoed[k].message = stream[echoed[k].at]
         /\ \A l \in 1..(k - 1) : echoed[l].at < echoed[k].at
    /\ pc = "build_lib_loop" => package_artifact = LastOwn(Without(OtherKinds))

\* build_lib read an artifact of the package and then a text line: the candidate
\* is kept and the text line is printed
C21_Witness ==
    /\ pc = "build_lib_loop"
    /\ Len(stream) = 2
    /\ stream[1].kind = "compiler-artifact" /\ stream[1].artifact.package_id = PackageId
    /\ stream[2].kind = "text-line"
    /\ package_artifact = Some(stream[1].artifact)
    /\ EchoedPositions = {2}

\* C22: what build_lib returns is decided by the message stream alone, whatever
\* the compiler's exit status: the last artifact message of the package when the
\* stream has one, 'Artifact not generated' when it has none; a stream with a
\* matching artifact gives success even from a compiler that exited unsuccessfully
C22_ExitStatusNotAuthoritative ==
    (returned # None /\ "exit_status" \in DOMAIN arguments) =>
        LET last == LastOwn(arguments.messages) IN
        /\ last # None => returned[1] = [err |-> None, artifact |-> last]
        /\ last = None => returned[1] = [err |-> Some(ErrNoArtifact), artifact |-> None]

\* the compiler reported an artifact of the package and exited unsuccessfully, and
\* build_lib returned that artifact
C22_Witness ==
    /\ returned # None
    /\ "exit_status" \in DOMAIN arguments
    /\ arguments.exit_status = "failure"
    /\ LastOwn(arguments.messages) # None
    /\ returned[1].err = None
    /\ returned[1].artifact = LastOwn(arguments.messages)

\* C23: once download_android_sdk has returned its path the resource file exists
\* at it (it was cached, or the download produced it), so the package is never
\* assembled with the SDK resource missing
C23_SdkPostcondition ==
    /\ pc = "artifact_cdylib" => fs.jar
    /\ CalledAny(PackageAssemblerOps) => fs.jar

\* the target string the workflow resolves is not one of the supported triples
TargetUnsupported == options.target # None /\ options.target[1] \notin RecognizedTriples

\* the expensive work: the cross-compilation and the SDK download
ExpensiveOps == {"cross build", "download_and_extract_packages"}

\* C24 as stated: in every Build workflow (apk.rs and main.rs) a run that ends on
\* an unknown metadata field, and every run whose target string is unsupported,
\* never spawns the cross-compilation and never attempts the SDK download
C24_ConfigErrorsFirst ==
    /\ result = ErrSchema => ~CalledAny(ExpensiveOps)
    /\ TargetUnsupported =>
         /\ ~CalledAny(ExpensiveOps)
         /\ pc = "done" => result \notin {"Ok", "running"}

\* C24, amended: in both tools an unsupported target string fails the run before
\* the cross-compilation is spawned and before any SDK download; an unknown
\* metadata field does so in apk.rs, while build_apk of main.rs reads the metadata
\* blocks only after the cross-compilation and the SDK resolver have run
C24_ConfigErrorsFirstByTool ==
    /\ (command = "Build" /\ result = ErrSchema) => ~CalledAny(ExpensiveOps)
    /\ (command = "ApkBuild" /\ result = ErrSchema) =>
         Called("cross build") /\ Called("exists")
    /\ TargetUnsupported =>
         /\ ~CalledAny(ExpensiveOps)
         /\ pc = "done" => result \notin {"Ok", "running"}

\* a Build of apk.rs for an unsupported target ended, after the metadata was
\* read, with the target error and without compiling
C24_Witness ==
    /\ command = "Build"
    /\ options.target = Some("wasm32-unknown-unknown")
    /\ result = ErrUnsupported
    /\ Called("Metadata::from_package")
    /\ ~CalledAny(ExpensiveOps)

\* the text of the key file named on the command line, None when none is named
ProvidedKey == IF cli.pem # None THEN Some("contents of key.pem") ELSE None

\* every signer and every finalize of the run was given exactly this key text
SignedWith(key) ==
    \A i \in 1..Len(calls) :
        calls[i].op \in {"Signer::new", "finish"} => calls[i].args = <<key>>

\* the identity handed to finalize is the provided key's when a key path is given,
\* read from that path, and the bundled development key's otherwise; a key that
\* cannot be read or parsed ends the run without finalize
SelectsIdentity ==
    /\ ProvidedKey # None =>
         /\ SignedWith(ProvidedKey[1])
         /\ CalledAny({"Signer::new", "finish"}) =>
              \E i \in 1..Len(calls) : calls[i] = Call("read_to_string", cli.pem)
    /\ ProvidedKey = None =>
         /\ SignedWith(DebugPem)
         /\ ~Called("read_to_string")
    /\ result \in {ErrPem, ErrSigner} => ~Called("finish")
    /\ Called("finish") => Called("Signer::new")

============================================================================
